---------------------------- MODULE Spec2Model ----------------------------
(***************************************************************************)
(* Model of the `codegen` subcommand of xtask (src/xtask/src/main.rs).     *)
(*                                                                         *)
(* Text is a sequence of tokens.  A token is either the line terminator    *)
(* NL or a literal fragment of text; the fragments are chosen so that      *)
(* every literal the program searches for ("::protobuf::VERSION", the old  *)
(* names of NAMING_PATCH, "_grpc.rs", ...) is a sequence of whole tokens.  *)
(* A path is a sequence of components; a file name is a sequence of name   *)
(* tokens whose last token may be an extension (".rs", ".proto", ...).     *)
(***************************************************************************)
EXTENDS Naturals, Integers, Sequences, FiniteSets, TLC

VARIABLES
    pc,         \* position of codegen / generate_protobuf / generate_prost
    k,          \* index into PROTOS of the target being processed
    run,        \* 1 or 2: which of two consecutive `cargo xtask codegen` runs
    status,     \* "running", "exited" (process::exit or return of main), "panicked"
    exitCode,   \* the process's exit code once status # "running"
    fs,         \* output directories: [exists, files: name -> content]
    tree,       \* schema source directories: [exists, entries: set of names]
    gen,        \* which deterministic behaviour the external generators have
    inputs,     \* inputs_ref of codegen: the sorted list of schema paths
    todo,       \* entries fs::read_dir(out_dir) has not yielded yet
    failed,     \* the external invocation that failed in this run, if any
    log,        \* steps performed in this run, in order
    patched,    \* files modify() wrote for NAMING_PATCH: <<target, dir, name>>
    snap,       \* fs when the previous run ended (or at the start)
    prevExit    \* how the previous run ended

vars == <<pc, k, run, status, exitCode, fs, tree, gen, inputs, todo, failed,
          log, patched, snap, prevExit>>

---------------------------------------------------------------------------
(* Bounds of the model.                                                    *)

\* longest generated file content (in tokens) the merge specification draws
MaxLen == 3
\* most enum identifiers in a file the patch specification draws
MaxWords == 3
\* most entries of a schema directory the resolver specification draws
MaxEntries == 3

---------------------------------------------------------------------------
(* Text.                                                                   *)

NL == "\n"
VER == "::protobuf::VERSION"

Range(s) == {s[i] : i \in 1..Len(s)}

IsPrefix(p, s) == Len(p) <= Len(s) /\ SubSeq(s, 1, Len(p)) = p

RECURSIVE Concat(_)
Concat(ss) == IF ss = <<>> THEN <<>> ELSE Head(ss) \o Concat(Tail(ss))

RECURSIVE SplitLines(_, _)
SplitLines(data, cur) ==
    IF data = <<>> THEN (IF cur = <<>> THEN <<>> ELSE <<cur>>)
    ELSE IF Head(data) = NL THEN <<cur>> \o SplitLines(Tail(data), <<>>)
    ELSE SplitLines(Tail(data), Append(cur, Head(data)))

\* str::lines(): split at "\n", the final line ending optional.
Lines(data) == SplitLines(data, <<>>)

\* the closure |l| l.contains("::protobuf::VERSION")
IsVersionLine(l) == VER \in Range(l)

RECURSIVE KeepAllLines(_)
KeepAllLines(ls) ==
    IF ls = <<>> THEN <<>> ELSE Head(ls) \o <<NL>> \o KeepAllLines(Tail(ls))

RECURSIVE PushLines(_)
PushLines(ls) ==
    IF ls = <<>> THEN <<>>
    ELSE IF IsVersionLine(Head(ls)) THEN PushLines(Tail(ls))
    ELSE Head(ls) \o <<NL>> \o PushLines(Tail(ls))

\* remove_match without its `continue`: every line is pushed.
remove_match_keeping(data) == KeepAllLines(Lines(data))

\* remove_match(data, |l| l.contains("::protobuf::VERSION"))
remove_match(data) == PushLines(Lines(data))

RECURSIVE Replace(_, _, _)
\* str::replace(old, new): every non-overlapping match, left to right.
Replace(s, old, new) ==
    IF Len(s) < Len(old) THEN s
    ELSE IF SubSeq(s, 1, Len(old)) = old
         THEN new \o Replace(SubSeq(s, Len(old) + 1, Len(s)), old, new)
         ELSE <<Head(s)>> \o Replace(Tail(s), old, new)


---------------------------------------------------------------------------
(* File names and paths.                                                   *)

ExtTokens == {".rs", ".proto", ".txt"}

\* Path::extension(): None without a '.', and None for a name such as
\* ".proto" that only begins with one.
HasExtension(name) == Len(name) >= 2 /\ name[Len(name)] \in ExtTokens

Extension(name) == name[Len(name)]

\* file_name.ends_with("_grpc.rs")
EndsWithGrpcRs(name) ==
    Len(name) >= 2 /\ SubSeq(name, Len(name) - 1, Len(name)) = <<"_grpc", ".rs">>

\* format!("{}.rs", &file_name[..file_name.len() - 8])
PbName(name) == SubSeq(name, 1, Len(name) - 2) \o <<".rs">>

\* format!("\npub use super::{}::*;\n", &file_name[..file_name.len() - 3])
ReexportLine(name) ==
    <<"pub use super::">> \o SubSeq(name, 1, Len(name) - 1) \o <<"::*;">>

\* the stub iteration without its push_str
ReexportNone(content, name) == content

ReexportText(name) == <<NL>> \o ReexportLine(name) \o <<NL>>

push_reexport(content, name) == content \o ReexportText(name)

\* Byte order of the fragments paths are made of: '.' < '/' < letters, and
\* "grpc-sys/" < "grpc/" because '-' < '/'.
TokenOrder ==
    <<".proto", ".rs", ".txt", "/", "a", "b", "example", "google", "grpc-sys",
      "grpc", "health", "proto", "rpc", "src", "testing", "v1">>

TokenRank(t) == CHOOSE i \in 1..Len(TokenOrder) : TokenOrder[i] = t

RECURSIVE SeqLess(_, _)
\* <str as Ord>::cmp: lexicographic, a proper prefix first.
SeqLess(s, t) ==
    IF t = <<>> THEN FALSE
    ELSE IF s = <<>> THEN TRUE
    ELSE IF Head(s) = Head(t) THEN SeqLess(Tail(s), Tail(t))
    ELSE TokenRank(Head(s)) < TokenRank(Head(t))

RECURSIVE Joined(_)
Joined(dir) == IF dir = <<>> THEN <<>> ELSE <<Head(dir), "/">> \o Joined(Tail(dir))

\* format!("{}", e.path().display()): the directory, '/', the file name.
PathText(p) == Joined(p.dir) \o p.name

PathLess(p, q) == SeqLess(PathText(p), PathText(q))

RECURSIVE Insert(_, _)
Insert(sorted, p) ==
    IF sorted = <<>> THEN <<p>>
    ELSE IF PathLess(p, Head(sorted)) THEN <<p>> \o sorted
    ELSE <<Head(sorted)>> \o Insert(Tail(sorted), p)

RECURSIVE InsertionSort(_)
InsertionSort(s) == IF s = <<>> THEN <<>> ELSE Insert(InsertionSort(Tail(s)), Head(s))

\* the inputs left in enumeration order
sort_skipped(s) == s

\* inputs_ref.sort_unstable()
sort_unstable(s) == InsertionSort(s)

\* every order in which read_dir can yield the entries of a directory
Orders(S) ==
    {o \in [1..Cardinality(S) -> S] : \A i, j \in DOMAIN o : i # j => o[i] # o[j]}

---------------------------------------------------------------------------
(* The tables.                                                             *)

PROTOS == <<
    [include |-> <<"grpc-sys", "grpc", "src", "proto">>,
     protos |-> << <<"grpc", "health", "v1">> >>,
     out_dir |-> <<"health", "src", "proto">>, package |-> <<>>],
    [include |-> <<"proto", "proto">>, protos |-> << <<"grpc", "testing">> >>,
     out_dir |-> <<"proto", "src", "proto">>, package |-> <<"testing">>],
    [include |-> <<"proto", "proto">>, protos |-> << <<"grpc", "example">> >>,
     out_dir |-> <<"proto", "src", "proto">>, package |-> <<"example">>],
    [include |-> <<"proto", "proto">>, protos |-> << <<"google", "rpc">> >>,
     out_dir |-> <<"proto", "src", "proto">>, package |-> <<"google", "rpc">>] >>

Targets == 1..Len(PROTOS)

\* format!("{}/protobuf/{}", out_dir, package)
PrimaryDir(i) == PROTOS[i].out_dir \o <<"protobuf">> \o PROTOS[i].package

\* format!("{}/prost/{}", out_dir, package)
AltDir(i) == PROTOS[i].out_dir \o <<"prost">> \o PROTOS[i].package

\* format!("{}/{}", include, p)
SchemaDir(i, j) == PROTOS[i].include \o PROTOS[i].protos[j]

OutDirs == {PrimaryDir(i) : i \in Targets} \cup {AltDir(i) : i \in Targets}

SchemaDirs ==
    UNION {{SchemaDir(i, j) : j \in 1..Len(PROTOS[i].protos)} : i \in Targets}

\* the table with the broader renames of SERVING and UNKNOWN listed first
NAMING_PATCH_unordered == <<
    [dir |-> <<"health", "src", "proto", "protobuf">>, name |-> <<"health", ".rs">>,
     name_fixes |-> <<
        << <<"HealthCheckResponse_", "Serving", "Status">>, <<"Serving", "Status">> >>,
        << <<"SERVING">>, <<"Serving">> >>,
        << <<"UNKNOWN">>, <<"Unknown">> >>,
        << <<"NOT_", "SERVING">>, <<"Not", "Serving">> >>,
        << <<"SERVICE_", "UNKNOWN">>, <<"Service", "Unknown">> >>,
        << <<"rustfmt_skip">>, <<"rustfmt::skip">> >> >>] >>

NAMING_PATCH == <<
    [dir |-> <<"health", "src", "proto", "protobuf">>, name |-> <<"health", ".rs">>,
     name_fixes |-> <<
        << <<"HealthCheckResponse_", "Serving", "Status">>, <<"Serving", "Status">> >>,
        \* Order is important.
        << <<"NOT_", "SERVING">>, <<"Not", "Serving">> >>,
        << <<"SERVICE_", "UNKNOWN">>, <<"Service", "Unknown">> >>,
        << <<"UNKNOWN">>, <<"Unknown">> >>,
        << <<"SERVING">>, <<"Serving">> >>,
        << <<"rustfmt_skip">>, <<"rustfmt::skip">> >> >>] >>

RECURSIVE name_fixes_apply(_, _)
\* for (old, new) in *name_fixes { *content = content.replace(old, new); }
name_fixes_apply(content, fixes) ==
    IF fixes = <<>> THEN content
    ELSE name_fixes_apply(Replace(content, Head(fixes)[1], Head(fixes)[2]), Tail(fixes))

---------------------------------------------------------------------------
(* The file system: each output directory exists or not, and holds files.  *)

EmptyFiles == [n \in {} |-> <<>>]

NoDir == [exists |-> FALSE, files |-> EmptyFiles]

EmptyDir == [exists |-> TRUE, files |-> EmptyFiles]

WriteFile(files, name, content) ==
    [n \in DOMAIN files \cup {name} |-> IF n = name THEN content ELSE files[n]]

WriteAll(files, new) ==
    [n \in DOMAIN files \cup DOMAIN new |-> IF n \in DOMAIN new THEN new[n] ELSE files[n]]

\* a recreation that does not remove what is there
remove_dir_kept(f, d) == f

\* fs::remove_dir_all(out_dir): the directory and everything below it.
remove_dir_all(f, d) == [x \in DOMAIN f |-> IF IsPrefix(d, x) THEN NoDir ELSE f[x]]

\* fs::create_dir_all(out_dir): the directory and its missing parents.
create_dir_all(f, d) ==
    [x \in DOMAIN f |-> IF IsPrefix(x, d) /\ ~f[x].exists THEN EmptyDir ELSE f[x]]

\* if Path::new(out_dir).exists() { remove_dir_all } create_dir_all
Recreate(f, d) == create_dir_all(IF f[d].exists THEN remove_dir_all(f, d) ELSE f, d)

---------------------------------------------------------------------------
(* The external programs: what they write and how they can end.            *)

ExitCodes == {0, 1, 3}

\* How an external invocation ends: it exits with a code, is killed by a
\* signal (no code), or cannot be started at all.
Outcomes ==
    {[kind |-> "exit", code |-> c] : c \in ExitCodes}
        \cup {[kind |-> "signal", code |-> 0], [kind |-> "spawn_error", code |-> 0]}

Succeeded(o) == o.kind = "exit" /\ o.code = 0

\* an exec that ends every failure with exit(1)
exec_flat(o) ==
    [exit |-> ~Succeeded(o), code |-> IF Succeeded(o) THEN 0 ELSE 1]

\* exec(): Err(e) => exit(-1); !s.success() => exit(s.code().unwrap_or(-1))
exec(o) ==
    IF o.kind = "spawn_error" THEN [exit |-> TRUE, code |-> -1]
    ELSE IF Succeeded(o) THEN [exit |-> FALSE, code |-> 0]
    ELSE [exit |-> TRUE, code |-> IF o.kind = "exit" THEN o.code ELSE -1]

GenProfiles == {"plain", "unterminated", "prefixed"}

\* The message-definition file the schema compiler emits for a module.
PbContent(g) ==
    CASE g = "plain" -> <<"NOT_", "SERVING", NL, VER, NL>>
      [] g = "unterminated" -> <<VER, NL, "NOT_", "SERVING">>
      [] OTHER -> <<"HealthCheckResponse_", "SERVING", "Status", NL>>

GrpcContent(g) == <<"fn", NL>>

ProstContent(g) == <<"prost", NL>>

Stem(name) == SubSeq(name, 1, Len(name) - 1)

\* one <module>.rs per input
ProtocRustFiles(ins, g) ==
    [n \in {Stem(ins[i].name) \o <<".rs">> : i \in 1..Len(ins)} |-> PbContent(g)]

\* one <module>_grpc.rs per input
PluginFiles(ins, g) ==
    [n \in {Stem(ins[i].name) \o <<"_grpc", ".rs">> : i \in 1..Len(ins)} |-> GrpcContent(g)]

\* one merged <module>.rs per input
ProstFiles(ins, g) ==
    [n \in {Stem(ins[i].name) \o <<".rs">> : i \in 1..Len(ins)} |-> ProstContent(g)]

---------------------------------------------------------------------------
(* codegen: the Input Resolver.                                            *)

RECURSIVE filter_map(_, _)
\* Some(s) if s == "proto" => Some(format!("{}", e.path().display()))
filter_map(dir, order) ==
    IF order = <<>> THEN <<>>
    ELSE (IF HasExtension(Head(order)) /\ Extension(Head(order)) = ".proto"
          THEN <<[dir |-> dir, name |-> Head(order)]>> ELSE <<>>)
         \o filter_map(dir, Tail(order))

\* One enumeration order per package directory of target i.
Enumerations(i) ==
    LET n == Len(PROTOS[i].protos)
        all == UNION {Orders(tree[SchemaDir(i, j)].entries) : j \in 1..n}
    IN {e \in [1..n -> all] : \A j \in 1..n : e[j] \in Orders(tree[SchemaDir(i, j)].entries)}

\* protos.iter().flat_map(..).collect()
collect(i, e) ==
    Concat([j \in 1..Len(PROTOS[i].protos) |-> filter_map(SchemaDir(i, j), e[j])])

---------------------------------------------------------------------------
(* generate_protobuf: naming patches and the merge / cleanup loop.         *)

RECURSIVE apply_patches(_, _)
\* for (path, name_fixes) in NAMING_PATCH { modify(path, ..) }
apply_patches(f, rules) ==
    IF rules = <<>> THEN [panic |-> FALSE, fs |-> f, touched |-> {}]
    ELSE LET r == Head(rules) IN
         IF r.dir \notin DOMAIN f \/ ~f[r.dir].exists \/ r.name \notin DOMAIN f[r.dir].files
         THEN [panic |-> TRUE, fs |-> f, touched |-> {}]
         ELSE LET f1 == [f EXCEPT ![r.dir].files =
                            WriteFile(@, r.name, name_fixes_apply(@[r.name], r.name_fixes))]
                  rest == apply_patches(f1, Tail(rules))
              IN [panic |-> rest.panic, fs |-> rest.fs,
                  touched |-> {<<r.dir, r.name>>} \cup rest.touched]

\* The body of `for f in fs::read_dir(out_dir)` for the entry e.
merge_entry(files, e) ==
    IF ~HasExtension(e) THEN [panic |-> TRUE, files |-> files]
    ELSE IF Extension(e) # ".rs" THEN [panic |-> FALSE, files |-> files]
    ELSE IF EndsWithGrpcRs(e) /\ PbName(e) \notin DOMAIN files
         THEN [panic |-> TRUE, files |-> files]
    ELSE LET f1 == IF EndsWithGrpcRs(e)
                   THEN WriteFile(files, PbName(e), push_reexport(files[PbName(e)], e))
                   ELSE files
         IN [panic |-> FALSE, files |-> WriteFile(f1, e, remove_match(f1[e]))]

---------------------------------------------------------------------------
(* The state machine.                                                      *)

NoFailure == [k |-> 0, step |-> "none", outcome |-> [kind |-> "exit", code |-> 0]]

StaleDir == [exists |-> TRUE, files |-> (<<"old", ".rs">> :> <<VER, NL>>)]

\* The schema source tree of the pipeline specification.
PipelineTree ==
    [d \in SchemaDirs |->
        [exists |-> TRUE,
         entries |-> IF d = SchemaDir(1, 1)
                     THEN {<<"health", ".proto">>, <<"a", ".txt">>}
                     ELSE {<<"a", ".proto">>, <<"a", ".txt">>}]]

Init ==
    /\ pc = "resolve" /\ k = 1 /\ run = 1
    /\ status = "running" /\ exitCode = 0
    /\ fs \in {[d \in OutDirs |-> NoDir], [d \in OutDirs |-> StaleDir]}
    /\ tree = PipelineTree
    /\ gen \in GenProfiles
    /\ inputs = <<>> /\ todo = {}
    /\ failed = NoFailure
    /\ log = <<>> /\ patched = {}
    /\ snap = fs
    /\ prevExit = [status |-> "none", code |-> 0]

\* A panic (an unwrap() on Err or None) ends the process with code 101.
Panic == status' = "panicked" /\ exitCode' = 101 /\ pc' = "exit"

Step(name) == log' = Append(log, <<k, name>>)

\* a loop body that ends with the formatter
AfterTargetFmt(i) == [pc |-> "fmt", k |-> i]

\* the end of the body of `for (include, protos, out_dir, package) in PROTOS`
AfterTarget(i) ==
    IF i < Len(PROTOS) THEN [pc |-> "resolve", k |-> i + 1] ELSE [pc |-> "fmt", k |-> i]

\* An exec() of an external program at position `step`.
ExecStep(step, next, fsOk) ==
    \E o \in Outcomes :
        LET r == exec(o) IN
        /\ Step(step)
        /\ IF r.exit
           THEN /\ status' = "exited" /\ exitCode' = r.code /\ pc' = "exit"
                /\ failed' = [k |-> k, step |-> step, outcome |-> o]
                /\ UNCHANGED <<fs, k>>
           ELSE /\ pc' = next.pc /\ k' = next.k /\ fs' = fsOk
                /\ UNCHANGED <<status, exitCode, failed>>

Resolve ==
    /\ pc = "resolve"
    /\ Step("resolve")
    /\ IF \E j \in 1..Len(PROTOS[k].protos) : ~tree[SchemaDir(k, j)].exists
       THEN Panic /\ UNCHANGED inputs
       ELSE /\ \E e \in Enumerations(k) : inputs' = sort_unstable(collect(k, e))
            /\ pc' = "a_recreate"
            /\ UNCHANGED <<status, exitCode>>
    /\ UNCHANGED <<k, run, fs, tree, gen, todo, failed, patched, snap, prevExit>>

ARecreate ==
    /\ pc = "a_recreate"
    /\ Step("a_recreate")
    /\ fs' = Recreate(fs, PrimaryDir(k))
    /\ pc' = "a_protoc_rust"
    /\ UNCHANGED <<k, run, status, exitCode, tree, gen, inputs, todo, failed, patched,
                   snap, prevExit>>

\* protoc_rust::run(..).unwrap(): any failure of the schema compiler is an Err.
AProtocRust ==
    /\ pc = "a_protoc_rust"
    /\ Step("a_protoc_rust")
    /\ \E o \in Outcomes :
        IF Succeeded(o)
        THEN /\ fs' = [fs EXCEPT ![PrimaryDir(k)].files =
                            WriteAll(@, ProtocRustFiles(inputs, gen))]
             /\ pc' = "a_build_plugin"
             /\ UNCHANGED <<status, exitCode, failed>>
        ELSE /\ Panic
             /\ failed' = [k |-> k, step |-> "a_protoc_rust", outcome |-> o]
             /\ UNCHANGED fs
    /\ UNCHANGED <<k, run, tree, gen, inputs, todo, patched, snap, prevExit>>

ABuildPlugin ==
    /\ pc = "a_build_plugin"
    /\ ExecStep("a_build_plugin", [pc |-> "a_protoc_plugin", k |-> k], fs)
    /\ UNCHANGED <<run, tree, gen, inputs, todo, patched, snap, prevExit>>

AProtocPlugin ==
    /\ pc = "a_protoc_plugin"
    /\ ExecStep("a_protoc_plugin", [pc |-> "patch", k |-> k],
                [fs EXCEPT ![PrimaryDir(k)].files = WriteAll(@, PluginFiles(inputs, gen))])
    /\ UNCHANGED <<run, tree, gen, inputs, todo, patched, snap, prevExit>>

NamingPatch ==
    /\ pc = "patch"
    /\ Step("patch")
    /\ LET r == apply_patches(fs, NAMING_PATCH) IN
       /\ fs' = r.fs
       /\ patched' = patched \cup {<<k, t[1], t[2]>> : t \in r.touched}
       /\ IF r.panic THEN Panic
          ELSE pc' = "read_dir" /\ UNCHANGED <<status, exitCode>>
    /\ UNCHANGED <<k, run, tree, gen, inputs, todo, failed, snap, prevExit>>

ReadDir ==
    /\ pc = "read_dir"
    /\ Step("merge")
    /\ todo' = DOMAIN fs[PrimaryDir(k)].files
    /\ pc' = IF todo' = {} THEN "b_recreate" ELSE "merge"
    /\ UNCHANGED <<k, run, status, exitCode, fs, tree, gen, inputs, failed, patched,
                   snap, prevExit>>

MergeEntry ==
    /\ pc = "merge"
    /\ \E e \in todo :
        LET r == merge_entry(fs[PrimaryDir(k)].files, e) IN
        /\ fs' = [fs EXCEPT ![PrimaryDir(k)].files = r.files]
        /\ todo' = todo \ {e}
        /\ IF r.panic THEN Panic
           ELSE /\ pc' = IF todo' = {} THEN "b_recreate" ELSE "merge"
                /\ UNCHANGED <<status, exitCode>>
    /\ UNCHANGED <<k, run, tree, gen, inputs, failed, log, patched, snap, prevExit>>

\* env::set_var("PROTOC", protoc) changes no state the model holds.
BRecreate ==
    /\ pc = "b_recreate"
    /\ Step("b_recreate")
    /\ fs' = Recreate(fs, AltDir(k))
    /\ pc' = "b_build"
    /\ UNCHANGED <<k, run, status, exitCode, tree, gen, inputs, todo, failed, patched,
                   snap, prevExit>>

BBuild ==
    /\ pc = "b_build"
    /\ ExecStep("b_build", [pc |-> "b_run", k |-> k], fs)
    /\ UNCHANGED <<run, tree, gen, inputs, todo, patched, snap, prevExit>>

BRun ==
    /\ pc = "b_run"
    /\ ExecStep("b_run", AfterTarget(k),
                [fs EXCEPT ![AltDir(k)].files = WriteAll(@, ProstFiles(inputs, gen))])
    /\ UNCHANGED <<run, tree, gen, inputs, todo, patched, snap, prevExit>>

\* exec(cargo().args(&["fmt", "--all"])), then main returns.
Fmt ==
    /\ pc = "fmt"
    /\ Step("fmt")
    /\ \E o \in Outcomes :
        LET r == exec(o) IN
        /\ status' = "exited" /\ exitCode' = r.code /\ pc' = "exit"
        /\ failed' = IF r.exit THEN [k |-> k, step |-> "fmt", outcome |-> o] ELSE failed
    /\ UNCHANGED <<k, run, fs, tree, gen, inputs, todo, patched, snap, prevExit>>

\* `cargo xtask codegen` is started a second time.
StartRun2 ==
    /\ pc = "exit" /\ run = 1
    /\ run' = 2 /\ pc' = "resolve" /\ k' = 1
    /\ status' = "running" /\ exitCode' = 0
    /\ snap' = fs
    /\ prevExit' = [status |-> status, code |-> exitCode]
    /\ inputs' = <<>> /\ todo' = {} /\ failed' = NoFailure
    /\ log' = <<>> /\ patched' = {}
    /\ UNCHANGED <<fs, tree, gen>>

Next ==
    \/ Resolve \/ ARecreate \/ AProtocRust \/ ABuildPlugin \/ AProtocPlugin
    \/ NamingPatch \/ ReadDir \/ MergeEntry \/ BRecreate \/ BBuild \/ BRun
    \/ Fmt \/ StartRun2

Spec == Init /\ [][Next]_vars

---------------------------------------------------------------------------
(* Specifications of single stages, started where the pipeline reaches     *)
(* them while it processes the first target, with their inputs drawn from  *)
(* bounded sets.  In them `snap` is the file system when the stage began.  *)

HealthInputs == <<[dir |-> SchemaDir(1, 1), name |-> <<"health", ".proto">>]>>

HealthRs == <<"health", ".rs">>

HealthGrpcRs == <<"health", "_grpc", ".rs">>

LogBeforePatch ==
    << <<1, "resolve">>, <<1, "a_recreate">>, <<1, "a_protoc_rust">>,
       <<1, "a_build_plugin">>, <<1, "a_protoc_plugin">> >>

\* Every text of at most n tokens over the alphabet A.
Texts(A, n) == UNION {[1..m -> A] : m \in 0..n}

MergeAlphabet == {NL, VER, "x"}

\* What else the generators may have left beside health.rs and its stub: a
\* file that is no .rs file, a stub without a message-definition file, a
\* file without an extension.
MergeExtras ==
    {EmptyFiles,
     <<"a", ".txt">> :> <<VER, NL>>,
     <<"a", "_grpc", ".rs">> :> <<"fn", NL>>,
     <<"LICENSE">> :> <<"x", NL>>}

MergeDirs ==
    {WriteAll(extra, HealthRs :> pb) : pb \in Texts(MergeAlphabet, MaxLen), extra \in MergeExtras}
        \cup {WriteAll(extra, (HealthRs :> pb) @@ (HealthGrpcRs :> stub)) :
                pb \in Texts(MergeAlphabet, MaxLen),
                stub \in Texts(MergeAlphabet, MaxLen), extra \in MergeExtras}

InitMerge ==
    /\ pc = "read_dir" /\ k = 1 /\ run = 1
    /\ status = "running" /\ exitCode = 0
    /\ \E files \in MergeDirs :
        fs = [d \in OutDirs |->
                IF d = PrimaryDir(1) THEN [exists |-> TRUE, files |-> files] ELSE NoDir]
    /\ tree = PipelineTree
    /\ gen = "plain"
    /\ inputs = HealthInputs /\ todo = {}
    /\ failed = NoFailure
    /\ log = Append(LogBeforePatch, <<1, "patch">>)
    /\ patched = {<<1, PrimaryDir(1), HealthRs>>}
    /\ snap = fs
    /\ prevExit = [status |-> "none", code |-> 0]

NextMerge == ReadDir \/ MergeEntry

SpecMerge == InitMerge /\ [][NextMerge]_vars

\* The identifiers the schema compiler emits for the health enum, and more.
EnumWords ==
    {<<"HealthCheckResponse_", "Serving", "Status">>, <<"NOT_", "SERVING">>,
     <<"SERVICE_", "UNKNOWN">>, <<"UNKNOWN">>, <<"SERVING">>, <<"rustfmt_skip">>,
     <<"x">>}

\* One identifier per line.
WordTexts ==
    UNION {{Concat([i \in 1..m |-> ws[i] \o <<NL>>]) : ws \in [1..m -> EnumWords]} :
            m \in 0..MaxWords}

InitPatch ==
    /\ pc = "patch" /\ k = 1 /\ run = 1
    /\ status = "running" /\ exitCode = 0
    /\ \E files \in {EmptyFiles} \cup
                    {(HealthRs :> t) @@ (HealthGrpcRs :> <<"fn", NL>>) : t \in WordTexts} :
        fs = [d \in OutDirs |->
                IF d = PrimaryDir(1) THEN [exists |-> TRUE, files |-> files] ELSE NoDir]
    /\ tree = PipelineTree
    /\ gen = "plain"
    /\ inputs = HealthInputs /\ todo = {}
    /\ failed = NoFailure
    /\ log = LogBeforePatch
    /\ patched = {}
    /\ snap = fs
    /\ prevExit = [status |-> "none", code |-> 0]

NextPatch == NamingPatch

SpecPatch == InitPatch /\ [][NextPatch]_vars

EntryNames ==
    {<<"a", ".proto">>, <<"b", ".proto">>, <<"a", "b", ".proto">>, <<"health", ".proto">>,
     <<"a", ".txt">>, <<".proto">>, <<"a">>}

InitResolve ==
    /\ pc = "resolve" /\ k = 1 /\ run = 1
    /\ status = "running" /\ exitCode = 0
    /\ fs = [d \in OutDirs |-> NoDir]
    /\ \E E \in SUBSET EntryNames, ex \in BOOLEAN :
        /\ Cardinality(E) <= MaxEntries
        /\ ~ex => E = {}
        /\ tree = [PipelineTree EXCEPT ![SchemaDir(1, 1)] = [exists |-> ex, entries |-> E]]
    /\ gen = "plain"
    /\ inputs = <<>> /\ todo = {}
    /\ failed = NoFailure
    /\ log = <<>> /\ patched = {}
    /\ snap = fs
    /\ prevExit = [status |-> "none", code |-> 0]

NextResolve == Resolve

SpecResolve == InitResolve /\ [][NextResolve]_vars

---------------------------------------------------------------------------
(* Properties.                                                             *)

Exit3 == [kind |-> "exit", code |-> 3]

\* The failing step is the last step of the run: nothing of a later target,
\* and no formatter run.
NoLaterStep ==
    /\ pc = "exit"
    /\ log # <<>> /\ log[Len(log)] = <<failed.k, failed.step>>
    /\ \A i \in 1..Len(log) : log[i][1] <= failed.k /\ log[i][2] # "fmt"

SameOutputs == \A d \in OutDirs : fs[d] = snap[d]

\* C2: when codegen has run twice in a row, both runs to completion, every
\* file under every output directory is the same after the second run as it
\* was after the first.
C2_Idempotent ==
    (run = 2 /\ prevExit = [status |-> "exited", code |-> 0]
        /\ status = "exited" /\ exitCode = 0) => SameOutputs

IsAscending(s) == \A i \in 1..(Len(s) - 1) : PathLess(s[i], s[i + 1])

ProtoFiles(i) ==
    UNION {{[dir |-> SchemaDir(i, j), name |-> n] :
                n \in {m \in tree[SchemaDir(i, j)].entries :
                        Len(m) >= 2 /\ m[Len(m)] = ".proto"}} :
            j \in 1..Len(PROTOS[i].protos)}

\* C3: the input list handed to the codec drivers is the set of the .proto
\* files of the target's package directories, strictly ascending by path (so
\* no path twice), and is what every enumeration order of the directories
\* leads to.
C3_InputsSorted ==
    pc = "a_recreate" =>
        /\ Range(inputs) = ProtoFiles(k)
        /\ IsAscending(inputs)
        /\ \A e \in Enumerations(k) : sort_unstable(collect(k, e)) = inputs

C3_Witness ==
    /\ pc = "a_recreate"
    /\ Len(inputs) >= 2
    /\ Cardinality(tree[SchemaDir(k, 1)].entries) > Len(inputs)

NonVersion(ls) == SelectSeq(ls, LAMBDA l : ~IsVersionLine(l))

Count(ls, l) == Cardinality({i \in 1..Len(ls) : ls[i] = l})

RECURSIVE IsSubsequence(_, _)
IsSubsequence(s, t) ==
    IF s = <<>> THEN TRUE
    ELSE IF t = <<>> THEN FALSE
    ELSE IF Head(s) = Head(t) THEN IsSubsequence(Tail(s), Tail(t))
    ELSE IsSubsequence(s, Tail(t))

MergeDone == pc = "b_recreate"

Before == snap[PrimaryDir(k)].files

After == fs[PrimaryDir(k)].files

\* the stub files that have a message-definition file beside them
PairedStubs == {n \in DOMAIN Before : EndsWithGrpcRs(n) /\ PbName(n) \in DOMAIN Before}

\* C4, as stated: after the loop the message-definition file holds all of its
\* original lines, in order, and exactly one re-export line, and the stub
\* file is as it was.
C4_MergeKeepsEverything ==
    MergeDone =>
        \A n \in PairedStubs :
            /\ IsSubsequence(Lines(Before[PbName(n)]), Lines(After[PbName(n)]))
            /\ Count(Lines(After[PbName(n)]), ReexportLine(n)) = 1
            /\ Lines(After[n]) = Lines(Before[n])

\* C4, amended: after the loop the message-definition file holds its original
\* lines other than those containing ::protobuf::VERSION, in order, followed
\* by at most one empty line and then the re-export line, which occurs exactly
\* once; the stub file holds its original lines other than those containing
\* ::protobuf::VERSION, each ended by a newline.
C4_Merge ==
    MergeDone =>
        \A n \in PairedStubs :
            LET kept == NonVersion(Lines(Before[PbName(n)]))
                now == Lines(After[PbName(n)])
            IN /\ now \in {kept \o <<ReexportLine(n)>>, kept \o <<<<>>, ReexportLine(n)>>}
               /\ Count(now, ReexportLine(n)) = 1
               /\ After[n] = KeepAllLines(NonVersion(Lines(Before[n])))

C4_Witness ==
    /\ MergeDone
    /\ HealthGrpcRs \in PairedStubs
    /\ Before[HealthRs] = <<"x", NL, VER>>
    /\ Before[HealthGrpcRs] = <<VER, NL, "x">>

RsFiles == {n \in DOMAIN Before : HasExtension(n) /\ Extension(n) = ".rs"}

\* C5: after the loop no line of a .rs file contains ::protobuf::VERSION, and
\* the file's other original lines are all there, unaltered and in order:
\* what follows them is only what the merge appended.
C5_VersionStripped ==
    MergeDone =>
        \A n \in RsFiles :
            LET kept == NonVersion(Lines(Before[n]))
                now == Lines(After[n])
                stub == Stem(n) \o <<"_grpc", ".rs">>
            IN /\ \A i \in 1..Len(now) : ~IsVersionLine(now[i])
               /\ IsPrefix(kept, now)
               /\ \A i \in (Len(kept) + 1)..Len(now) :
                    stub \in DOMAIN Before /\ now[i] \in {<<>>, ReexportLine(stub)}

C5_Witness ==
    /\ MergeDone
    /\ Before[HealthRs] = <<"x", NL, VER>>
    /\ HealthGrpcRs \in DOMAIN Before /\ Before[HealthGrpcRs] = <<VER, NL, NL>>

RECURSIVE ApplyUpTo(_, _, _)
ApplyUpTo(content, fixes, n) ==
    IF n = 0 THEN content
    ELSE Replace(ApplyUpTo(content, fixes, n - 1), fixes[n][1], fixes[n][2])

\* What each identifier of the health enum is to be renamed to.
Renamed(w) ==
    CASE w = <<"HealthCheckResponse_", "Serving", "Status">> -> <<"Serving", "Status">>
      [] w = <<"NOT_", "SERVING">> -> <<"Not", "Serving">>
      [] w = <<"SERVICE_", "UNKNOWN">> -> <<"Service", "Unknown">>
      [] w = <<"UNKNOWN">> -> <<"Unknown">>
      [] w = <<"SERVING">> -> <<"Serving">>
      [] w = <<"rustfmt_skip">> -> <<"rustfmt::skip">>
      [] OTHER -> w

\* C6: the content written back for a rule is its substitutions applied to
\* the content read, left to right and once each; so in a file of the health
\* enum's identifiers NOT_SERVING ends as NotServing and SERVICE_UNKNOWN as
\* ServiceUnknown, the broader renames of SERVING and UNKNOWN not firing
\* inside them.
C6_PatchOrdering ==
    (pc = "read_dir" /\ HealthRs \in DOMAIN Before) =>
        LET read == Lines(Before[HealthRs]) IN
        /\ \A i \in 1..Len(NAMING_PATCH) :
            LET r == NAMING_PATCH[i] IN
            fs[r.dir].files[r.name] =
                ApplyUpTo(snap[r.dir].files[r.name], r.name_fixes, Len(r.name_fixes))
        /\ After[HealthRs] = Concat([i \in 1..Len(read) |-> Renamed(read[i]) \o <<NL>>])

C6_Witness ==
    /\ pc = "read_dir"
    /\ HealthRs \in DOMAIN Before
    /\ Lines(Before[HealthRs]) = << <<"NOT_", "SERVING">>, <<"SERVICE_", "UNKNOWN">>, <<"SERVING">> >>

\* C7: the naming patches applied while a target is processed write only
\* files under that target's own primary output directory.
C7_PatchScoped == \A t \in patched : IsPrefix(PrimaryDir(t[1]), t[2])

TargetSteps(i) ==
    << <<i, "resolve">>, <<i, "a_recreate">>, <<i, "a_protoc_rust">>,
       <<i, "a_build_plugin">>, <<i, "a_protoc_plugin">>, <<i, "patch">>,
       <<i, "merge">>, <<i, "b_recreate">>, <<i, "b_build">>, <<i, "b_run">> >>

ExpectedLog ==
    Concat([i \in 1..Len(PROTOS) |-> TargetSteps(i)]) \o << <<Len(PROTOS), "fmt">> >>

\* C8: the steps of a run are a prefix of: for each target in table order,
\* resolve, Codec Driver A (recreate, message definitions, plugin build,
\* service stubs), naming patches, merge and cleanup (all entries before the
\* next step), Codec Driver B (recreate, build, run); then the formatter once.
\* A run without a failure performs them all; a run that aborts earlier never
\* invokes the formatter.
C8_StepOrdering ==
    /\ IsPrefix(log, ExpectedLog)
    /\ (status = "exited" /\ failed = NoFailure) => log = ExpectedLog
    /\ (status # "running" /\ failed.step # "fmt" /\ log # ExpectedLog)
            => \A i \in 1..Len(log) : log[i][2] # "fmt"
    /\ todo # {} => (pc = "merge" /\ log[Len(log)] = <<k, "merge">>)
    /\ pc \notin {"exit", "merge"}
            => ExpectedLog[Len(log) + 1] = <<k, IF pc = "read_dir" THEN "merge" ELSE pc>>

C8_Witness ==
    /\ status = "exited" /\ exitCode = 0 /\ failed = NoFailure
    /\ log = ExpectedLog
    /\ Count(log, <<Len(PROTOS), "fmt">>) = 1

\* C9: when a codec driver's first external invocation for a target starts,
\* the target's output directory exists and is empty; no output directory of
\* a target is equal to or inside an output directory of another target; and
\* the output directories of the targets already processed in this run still
\* hold their artifacts.
C9_FreshOutputDirs ==
    /\ pc = "a_protoc_rust" => fs[PrimaryDir(k)] = EmptyDir
    /\ pc \in {"b_build", "b_run"} => fs[AltDir(k)] = EmptyDir
    /\ \A i, j \in Targets :
        i # j => \A d \in {PrimaryDir(i), AltDir(i)}, e \in {PrimaryDir(j), AltDir(j)} :
                    ~IsPrefix(d, e)
    /\ \A j \in 1..(k - 1) :
        /\ fs[PrimaryDir(j)].exists /\ fs[PrimaryDir(j)].files # EmptyFiles
        /\ <<"old", ".rs">> \notin DOMAIN fs[PrimaryDir(j)].files
        /\ fs[AltDir(j)].exists /\ fs[AltDir(j)].files # EmptyFiles

C9_Witness ==
    /\ pc = "b_build" /\ k = 2
    /\ snap[AltDir(2)].files # EmptyFiles
    /\ fs[AltDir(2)] = EmptyDir
    /\ fs[AltDir(1)].files # EmptyFiles

RECURSIVE MergeAll(_, _)
MergeAll(files, order) ==
    IF order = <<>> THEN files
    ELSE MergeAll(merge_entry(files, Head(order)).files, Tail(order))

\* C10: the content of every file after the merge and cleanup loop is the
\* same for every order in which the directory enumeration yields the
\* entries.
C10_OrderIndependent ==
    MergeDone => \A o \in Orders(DOMAIN Before) : After = MergeAll(Before, o)

============================================================================
